---------------------------- MODULE Spec2Model ----------------------------
(***************************************************************************)
(* Model of the response post-processing pipeline of app.py: the           *)
(* incomplete-output heuristic, the post/visuals splitter and the          *)
(* sequential draft generation loop with its single retry.                 *)
(*                                                                         *)
(* A Python str is a sequence of code points.  Each element is a           *)
(* one-character TLA+ string for an ASCII character and the string         *)
(* "U+XXXX" for any other code point, so Len is Python's len.              *)
(***************************************************************************)
EXTENDS Integers, Sequences, FiniteSets, TLC

VARIABLES
    API_KEY,        \* module global API_KEY (os.getenv): "None", "" or a key
    topic,          \* the topic text area's value
    num_drafts,     \* the draft-count slider's value
    pc,             \* position of the script run / of the function application
    idx,            \* loop variable of `for idx in range(num_drafts)`
    attempt,        \* loop counter of `while attempt < 2`
    generated_raw,  \* the accepted text of the draft being generated
    drafts,         \* the list `drafts`
    inflight,       \* completion requests issued and not yet answered
    ncalls,         \* completion calls issued for the draft being generated
    first,          \* outcome of the first call of the draft being generated
    second,         \* outcome of the second call of the draft being generated
    slept,          \* time.sleep calls made for the draft being generated
    ui,             \* st.error / st.warning messages surfaced by this run
    shown,          \* per draft, the post and visuals text handed to the UI
    arg,            \* argument of the helper function being applied
    ret             \* value returned by that helper function

vars == <<API_KEY, topic, num_drafts, pc, idx, attempt, generated_raw, drafts,
          inflight, ncalls, first, second, slept, ui, shown, arg, ret>>

----------------------------------------------------------------------------
(* Characters and Python's str primitives *)

LowerCaseLetters ==
    {"a","b","c","d","e","f","g","h","i","j","k","l","m",
     "n","o","p","q","r","s","t","u","v","w","x","y","z"}

UpperCaseLetters ==
    {"A","B","C","D","E","F","G","H","I","J","K","L","M",
     "N","O","P","Q","R","S","T","U","V","W","X","Y","Z"}

Digits == {"0","1","2","3","4","5","6","7","8","9"}

\* str.lower() on one character
Lower(c) ==
    CASE c = "A" -> "a" [] c = "B" -> "b" [] c = "C" -> "c" [] c = "D" -> "d"
      [] c = "E" -> "e" [] c = "F" -> "f" [] c = "G" -> "g" [] c = "H" -> "h"
      [] c = "I" -> "i" [] c = "J" -> "j" [] c = "K" -> "k" [] c = "L" -> "l"
      [] c = "M" -> "m" [] c = "N" -> "n" [] c = "O" -> "o" [] c = "P" -> "p"
      [] c = "Q" -> "q" [] c = "R" -> "r" [] c = "S" -> "s" [] c = "T" -> "t"
      [] c = "U" -> "u" [] c = "V" -> "v" [] c = "W" -> "w" [] c = "X" -> "x"
      [] c = "Y" -> "y" [] c = "Z" -> "z" [] OTHER -> c

\* the characters str.strip() removes and the regex class \s matches
IsSpace(c) == c \in {" ", "\n", "\r", "\t"}

\* the regex class \w (U+00E2 is the letter a-circumflex)
IsWordChar(c) == c \in LowerCaseLetters \cup UpperCaseLetters \cup Digits \cup {"_", "U+00E2"}

\* s[i:] with i counted from 1
From(s, i) == IF i > Len(s) THEN <<>> ELSE SubSeq(s, i, Len(s))

\* s[:i-1] with i counted from 1
Before(s, i) == IF i <= 1 THEN <<>> ELSE SubSeq(s, 1, i - 1)

RECURSIVE SkipSpace(_, _)
\* index of the first non-space character of s at or after i (Len(s)+1 if none): greedy \s*
SkipSpace(s, i) ==
    IF i <= Len(s) /\ IsSpace(s[i]) THEN SkipSpace(s, i + 1) ELSE i

RECURSIVE LastNonSpace(_, _)
\* index of the last non-space character of s at or before i (0 if none)
LastNonSpace(s, i) ==
    IF i >= 1 /\ IsSpace(s[i]) THEN LastNonSpace(s, i - 1) ELSE i

\* str.strip()
Strip(s) ==
    LET a == SkipSpace(s, 1)
        b == LastNonSpace(s, Len(s))
    IN  IF a > b THEN <<>> ELSE SubSeq(s, a, b)

\* str.startswith(p) for the substring of s that starts at index i
MatchAt(s, i, p) ==
    /\ i >= 1
    /\ i + Len(p) - 1 <= Len(s)
    /\ \A k \in 1..Len(p) : s[i + k - 1] = p[k]

\* the same under re.IGNORECASE (p is written in lower case)
MatchAtCI(s, i, p) ==
    /\ i >= 1
    /\ i + Len(p) - 1 <= Len(s)
    /\ \A k \in 1..Len(p) : Lower(s[i + k - 1]) = p[k]

\* str.endswith(p)
EndsWith(s, p) == Len(p) <= Len(s) /\ MatchAt(s, Len(s) - Len(p) + 1, p)

\* str.lower().startswith(p)
LowerStartsWith(s, p) == MatchAtCI(s, 1, p)

\* the least element of a non-empty set of integers
Min(S) == CHOOSE i \in S : \A j \in S : i <= j

RECURSIVE SplitFrom(_, _)
\* str.splitlines() of s[i:]: a line ends at "\n", "\r" or "\r\n"
SplitFrom(s, i) ==
    IF i > Len(s) THEN <<>>
    ELSE LET breaks == { k \in i..Len(s) : s[k] \in {"\n", "\r"} }
         IN  IF breaks = {} THEN << SubSeq(s, i, Len(s)) >>
             ELSE LET k == Min(breaks)
                      next == IF s[k] = "\r" /\ k < Len(s) /\ s[k + 1] = "\n"
                              THEN k + 2 ELSE k + 1
                  IN  << SubSeq(s, i, k - 1) >> \o SplitFrom(s, next)

\* str.splitlines()
SplitLines(s) == SplitFrom(s, 1)

RECURSIVE Join(_)
\* "\n".join(lines)
Join(lines) ==
    IF lines = <<>> THEN <<>>
    ELSE IF Len(lines) = 1 THEN lines[1]
    ELSE lines[1] \o <<"\n">> \o Join(Tail(lines))

RECURSIVE Rep(_, _)
\* c * n
Rep(c, n) == IF n <= 0 THEN <<>> ELSE <<c>> \o Rep(c, n - 1)

----------------------------------------------------------------------------
(* Literals of app.py *)

W_visuals == <<"v","i","s","u","a","l","s">>
W_image_options == <<"/","i","m","a","g","e"," ","o","p","t","i","o","n","s">>
W_post == <<"p","o","s","t">>

\* the alternatives of the regex of remove_visual_lines_from_post, `slide \d` apart
VisualKeywords ==
    { <<"v","i","s","u","a","l","s">>,
      <<"i","m","a","g","e"," ","o","p","t","i","o","n","s">>,
      <<"o","v","e","r","l","a","y"," ","t","e","x","t">>,
      <<"c","a","r","o","u","s","e","l">>,
      <<"s","u","g","g","e","s","t","i","o","n">>,
      <<"i","m","a","g","e"," ","i","d","e","a">>,
      <<"v","i","s","u","a","l">> }

W_slide_sp == <<"s","l","i","d","e"," ">>

\* the alternatives of the regex of the trailing heuristic
TrailingKeywords ==
    { <<"i","m","a","g","e">>,
      <<"s","l","i","d","e">>,
      <<"v","i","s","u","a","l">>,
      <<"o","v","e","r","l","a","y">>,
      <<"c","a","r","o","u","s","e","l">> }

\* the suffixes given to t.endswith: "...", then the two literals as the file spells them
IncompleteSuffixes ==
    { <<".",".",".">>,
      <<"U+00E2","U+20AC","U+00A6">>,
      <<"-">>,
      <<"U+00E2","U+20AC","U+201D">> }

\* the characters of the all(...) test
BulletChars == {"*", "-", " ", "\n", "\r", "\t"}

\* the first-line prefixes of a stray label line
LabelPrefixes == { <<"d","r","a","f","t">>, <<"1",")">>, <<"-","-","-">> }

NoContent == <<"[","N","o"," ","c","o","n","t","e","n","t"," ","g","e","n","e","r","a","t","e","d","]">>

MinCompleteLen == 40

MaxAttempts == 2

----------------------------------------------------------------------------
(* is_incomplete_text *)

is_incomplete_text(text) ==
    IF text = <<>> THEN TRUE
    ELSE LET t == Strip(text)
         IN  IF Len(t) < MinCompleteLen THEN TRUE
             ELSE IF \E p \in IncompleteSuffixes : EndsWith(t, p) THEN TRUE
             ELSE IF \A k \in 1..Len(t) : t[k] \in BulletChars THEN TRUE
             ELSE FALSE

----------------------------------------------------------------------------
(* Regular expressions of the splitter *)

\* (?m)^ : the start of the text or just after a newline
AtLineStart(s, i) == i = 1 \/ (i >= 2 /\ i <= Len(s) + 1 /\ s[i - 1] = "\n")

\* \b between s[i-1] and s[i]
WordBoundary(s, i) ==
    LET l == i >= 2 /\ i - 1 <= Len(s) /\ IsWordChar(s[i - 1])
        r == i >= 1 /\ i <= Len(s) /\ IsWordChar(s[i])
    IN  l # r

\* (?mi)^\s*word matches at i
LabelAt(s, i, word) == AtLineStart(s, i) /\ MatchAtCI(s, SkipSpace(s, i), word)

\* where the match of (?mi)^\s*(word(?:opt)?\s*[:\-]?\s*) at i ends (first index after it)
LabelEnd(s, i, word, opt) ==
    LET a == SkipSpace(s, i) + Len(word)
        b == IF opt # <<>> /\ MatchAtCI(s, a, opt) THEN a + Len(opt) ELSE a
        c == SkipSpace(s, b)
        d == IF c <= Len(s) /\ s[c] \in {":", "-"} THEN c + 1 ELSE c
    IN  SkipSpace(s, d)

RECURSIVE SubLabelFrom(_, _, _, _)
\* re.sub(r"(?mi)^\s*(word(?:opt)?\s*[:\-]?\s*)", "", s), scanning from i
SubLabelFrom(s, i, word, opt) ==
    LET hits == { k \in i..Len(s) : LabelAt(s, k, word) }
    IN  IF hits = {} THEN From(s, i)
        ELSE LET k == Min(hits)
             IN  SubSeq(s, i, k - 1) \o SubLabelFrom(s, LabelEnd(s, k, word, opt), word, opt)

SubVisualsHeader(s) == SubLabelFrom(s, 1, W_visuals, W_image_options)

SubPostLabel(s) == SubLabelFrom(s, 1, W_post, <<>>)

\* m.start() of re.search(r"(?mi)^\s*(visuals(?:/image options)?\s*[:\-]?)", text), 0 for no match
HeaderSearch(text) ==
    LET hits == { i \in 1..Len(text) : LabelAt(text, i, W_visuals) }
    IN  IF hits = {} THEN 0 ELSE Min(hits)

\* pos.start() of re.search(r"(?mi)\nvisuals(?:/image options)?\s*[:\-]?", text), 0 for no match
LaterSearch(text) ==
    LET hits == { i \in 1..Len(text) : text[i] = "\n" /\ MatchAtCI(text, i + 1, W_visuals) }
    IN  IF hits = {} THEN 0 ELSE Min(hits)

\* re.search of the keyword regex of remove_visual_lines_from_post in one line
MentionsVisual(ln) ==
    \E i \in 1..Len(ln) :
        /\ WordBoundary(ln, i)
        /\ \/ \E w \in VisualKeywords :
                MatchAtCI(ln, i, w) /\ WordBoundary(ln, i + Len(w))
           \/ /\ MatchAtCI(ln, i, W_slide_sp)
              /\ i + Len(W_slide_sp) <= Len(ln)
              /\ ln[i + Len(W_slide_sp)] \in Digits
              /\ WordBoundary(ln, i + Len(W_slide_sp) + 1)

\* re.match(r"(?i)^\s*[-\u2022]?\s*(image|slide|visual|overlay|carousel)\b", ln.strip())
StartsLikeVisual(ln) ==
    LET s == Strip(ln)
        a == SkipSpace(s, 1)
        b == IF a <= Len(s) /\ s[a] \in {"-", "U+2022"} THEN a + 1 ELSE a
        c == SkipSpace(s, b)
    IN  \E w \in TrailingKeywords : MatchAtCI(s, c, w) /\ WordBoundary(s, c + Len(w))

----------------------------------------------------------------------------
(* remove_visual_lines_from_post and split_post_and_visuals *)

\* the lines the loop keeps
KeepLine(ln) == ~MentionsVisual(ln)

\* remove_visual_lines_from_post without the final strip
remove_visual_lines_Untrimmed(post_text) ==
    IF post_text = <<>> THEN <<>>
    ELSE Join(SelectSeq(SplitLines(post_text), KeepLine))

remove_visual_lines_from_post(post_text) ==
    IF post_text = <<>> THEN <<>>
    ELSE Strip(Join(SelectSeq(SplitLines(post_text), KeepLine)))

\* TrailingCut with a window of eight lines
TrailingCut_Eight(lines) ==
    LET n == Len(lines)
        lo == (IF n - 9 > -1 THEN n - 9 ELSE -1) + 2
        hits == { i \in lo..n : StartsLikeVisual(lines[i]) }
    IN  IF hits = {} THEN 0 ELSE CHOOSE i \in hits : \A j \in hits : i >= j

\* the index (from 1) at which the trailing heuristic cuts `lines`, 0 when its loop ends unmatched
TrailingCut(lines) ==
    LET n == Len(lines)
        lo == (IF n - 8 > -1 THEN n - 8 ELSE -1) + 2
        hits == { i \in lo..n : StartsLikeVisual(lines[i]) }
    IN  IF hits = {} THEN 0 ELSE CHOOSE i \in hits : \A j \in hits : i >= j

\* SplitAtHeader whose visuals part is the whole text
SplitAtHeader_Overlap(text, cut) ==
    LET post_part == Strip(Before(text, cut))
        visuals_part == Strip(text)
    IN  << remove_visual_lines_from_post(Strip(SubPostLabel(post_part))),
           Strip(SubVisualsHeader(visuals_part)) >>

\* the header branches: cut text before index cut
SplitAtHeader(text, cut) ==
    LET post_part == Strip(Before(text, cut))
        visuals_part == Strip(From(text, cut))
    IN  << remove_visual_lines_from_post(Strip(SubPostLabel(post_part))),
           Strip(SubVisualsHeader(visuals_part)) >>

\* SplitAtLine that leaves the post part as it was cut
SplitAtLine_Uncleaned(lines, cut) ==
    LET post_part == Strip(Join(SubSeq(lines, 1, cut - 1)))
        visuals_part == Strip(Join(SubSeq(lines, cut, Len(lines))))
    IN  << post_part, Strip(SubVisualsHeader(visuals_part)) >>

\* the trailing-heuristic branch: cut lines before index cut
SplitAtLine(lines, cut) ==
    LET post_part == Strip(Join(SubSeq(lines, 1, cut - 1)))
        visuals_part == Strip(Join(SubSeq(lines, cut, Len(lines))))
    IN  << remove_visual_lines_from_post(post_part),
           Strip(SubVisualsHeader(visuals_part)) >>

\* which return statement of split_post_and_visuals is taken
SplitPath(raw_text) ==
    LET text == Strip(raw_text)
    IN  IF raw_text = <<>> THEN "empty"
        ELSE IF HeaderSearch(text) # 0 THEN "header"
        ELSE IF LaterSearch(text) # 0 THEN "later"
        ELSE IF TrailingCut(SplitLines(text)) # 0 THEN "trailing"
        ELSE "fallback"

\* split_post_and_visuals that tries the trailing heuristic before the header
split_TrailingFirst(raw_text) ==
    LET text == Strip(raw_text)
        lines == SplitLines(text)
    IN  IF raw_text = <<>> THEN << <<>>, <<>> >>
        ELSE IF TrailingCut(lines) # 0 THEN SplitAtLine(lines, TrailingCut(lines))
        ELSE IF HeaderSearch(text) # 0 THEN SplitAtHeader(text, HeaderSearch(text))
        ELSE IF LaterSearch(text) # 0 THEN SplitAtHeader(text, LaterSearch(text))
        ELSE << remove_visual_lines_from_post(text), <<>> >>

\* split_post_and_visuals whose last return hands the trimmed text back as it is
split_FallbackUncleaned(raw_text) ==
    LET text == Strip(raw_text)
        lines == SplitLines(text)
    IN  IF raw_text = <<>> THEN << <<>>, <<>> >>
        ELSE IF HeaderSearch(text) # 0 THEN SplitAtHeader(text, HeaderSearch(text))
        ELSE IF LaterSearch(text) # 0 THEN SplitAtHeader(text, LaterSearch(text))
        ELSE IF TrailingCut(lines) # 0 THEN SplitAtLine(lines, TrailingCut(lines))
        ELSE << text, <<>> >>

split_post_and_visuals(raw_text) ==
    LET text == Strip(raw_text)
        lines == SplitLines(text)
    IN  IF raw_text = <<>> THEN << <<>>, <<>> >>
        ELSE IF HeaderSearch(text) # 0 THEN SplitAtHeader(text, HeaderSearch(text))
        ELSE IF LaterSearch(text) # 0 THEN SplitAtHeader(text, LaterSearch(text))
        ELSE IF TrailingCut(lines) # 0 THEN SplitAtLine(lines, TrailingCut(lines))
        ELSE << remove_visual_lines_from_post(text), <<>> >>

----------------------------------------------------------------------------
(* Inputs of the helper functions *)

MaxRun == 41

MaxLines == 3

MaxFill == 7

RunLeads == { <<>>, <<" ">>, <<"-"," ">> }

RunChars == {"A", "*"}

\* "", "...", U+2026 (ellipsis), "-", U+2014 (em dash), the file's two spellings, "."
RunSuffixes ==
    { <<>>, <<".",".",".">>, <<"U+2026">>, <<"-">>, <<"U+2014">>,
      <<"U+00E2","U+20AC","U+00A6">>, <<"U+00E2","U+20AC","U+201D">>, <<".">> }

RunTrails == { <<>>, <<"\n">> }

\* a run of one character with something before and after it
RunInputs ==
    { l \o Rep(c, n) \o x \o t :
        l \in RunLeads, c \in RunChars, n \in 0..MaxRun, x \in RunSuffixes, t \in RunTrails }

L_Post == <<"P","o","s","t",":">>
L_Hello == <<"H","e","l","l","o"," ","w","o","r","l","d",".">>
L_Header == <<"V","i","s","u","a","l","s","/","I","m","a","g","e"," ","o","p","t","i","o","n","s",":">>
L_Slide == <<"S","l","i","d","e"," ","1",":"," ","p","h","o","t","o">>
L_Image == <<"I","m","a","g","e"," ","i","d","e","a",":"," ","a"," ","s","u","n","r","i","s","e"," ","p","h","o","t","o",".">>
L_Bullet == <<"-"," ","b","u","y"," ","m","i","l","k">>
L_Posting == <<"P","o","s","t","i","n","g"," ","d","a","i","l","y">>
L_Guide == <<"A"," ","v","i","s","u","a","l"," ","g","u","i","d","e">>
L_header2 == <<" ","v","i","s","u","a","l","s"," ","-"," ","x">>
L_Overlay == <<"U+2022"," ","O","v","e","r","l","a","y"," ","t","e","x","t">>
L_CrHeader == <<"S","l","i","d","e"," ","2","\r","v","i","s","u","a","l","s",":"," ","y">>
L_Deck == <<"S","l","i","d","e"," ","d","e","c","k"," ","t","i","p","s">>
L_Tip == <<"G","r","e","a","t"," ","t","i","p"," ","t","o","d","a","y",".">>

LineLib ==
    { L_Post, L_Hello, L_Header, L_Slide, L_Image, L_Bullet, L_Posting, L_Guide,
      L_header2, L_Overlay, L_CrHeader, L_Deck, <<>> }

\* up to MaxLines lines of LineLib
ShortInputs ==
    { Join(ls) : ls \in UNION { [1..n -> LineLib] : n \in 1..MaxLines } }

\* a line of LineLib, then filler lines, then possibly one more line of LineLib
LongInputs ==
    { Join(<<a>> \o [k \in 1..n |-> L_Tip] \o b) :
        a \in LineLib, n \in 1..MaxFill, b \in { <<>> } \cup { <<l>> : l \in LineLib } }

\* the worked examples of the splitter, and a text with a keyword line above the header
ExampleInputs ==
    { Join(<<L_Post, L_Hello, <<>>, L_Header, L_Slide>>),
      Join(<<L_Tip, <<>>, L_Image>>),
      Join(<<L_Guide, L_Hello, L_Header, L_Slide>>),
      <<"J","u","s","t"," ","o","n","e"," ","p","a","r","a","g","r","a","p","h",","," ","n","o"," ","h","e","a","d","e","r","s",","," ","d","e","f","i","n","i","t","e","l","y"," ","o","v","e","r"," ","f","o","r","t","y"," ","c","h","a","r","a","c","t","e","r","s"," ","l","o","n","g",".">> }

TextInputs == RunInputs \cup ShortInputs \cup LongInputs \cup ExampleInputs

----------------------------------------------------------------------------
(* The script's inputs and what the completion service may answer *)

\* os.getenv("GROQ_API_KEY"): unset, set to the empty string, or a key
ApiKeys == {"None", "", "gsk_key"}

Topics == { <<>>, <<" ">>, <<"\n"," ">>, <<"A","I"," ","a","g","e","n","t","s">> }

\* options of the select_slider
DraftCounts == {1, 3, 5}

\* both labelled sections, as the prompt asks for
R_Full == Join(<<L_Post, L_Hello, <<>>, L_Header, L_Slide>>)

\* a truncated answer
R_Short == <<"o","k">>

\* a one-line answer that begins with a stray label
R_Label == <<"D","r","a","f","t"," ","1",":"," ">> \o L_Tip \o <<" ">> \o L_Image

\* an answer that holds the visuals section only
R_VisualsOnly == Join(<<L_Header, L_Slide, L_Image>>)

Responses == { R_Full, R_Short, R_Label, R_VisualsOnly }

\* str(exc) of the exception a completion call raises
Excs == { <<"r","a","t","e"," ","l","i","m","i","t"," ","e","x","c","e","e","d","e","d">> }

\* traceback.format_exc() inside the except block
format_exc(exc) ==
    <<"T","r","a","c","e","b","a","c","k"," ","(","m","o","s","t"," ","r","e","c","e","n","t"," ","c","a","l","l"," ","l","a","s","t",")",":","\n">>
    \o <<" "," ","F","i","l","e"," ","\"","a","p","p",".","p","y","\"",","," ","l","i","n","e"," ","4","3","2",","," ","i","n"," ","<","m","o","d","u","l","e",">","\n">>
    \o <<"E","x","c","e","p","t","i","o","n",":"," ">> \o exc \o <<"\n">>

\* f"[Error generating draft: {exc}]\n\n{traceback.format_exc()}"
ErrorText(exc) ==
    <<"[","E","r","r","o","r"," ","g","e","n","e","r","a","t","i","n","g"," ","d","r","a","f","t",":"," ">>
    \o exc \o <<"]","\n","\n">> \o format_exc(exc)

\* the text shown when a draft has no visuals
DefaultVisuals ==
    <<"I","m","a","g","e"," ","i","d","e","a",":"," ","e",".","g",".",","," ","a"," ","c","l","e","a","n"," ","p","h","o","t","o"," ","o","f"," ","a"," ","p","r","o","f","e","s","s","i","o","n","a","l"," ","a","t"," ","w","o","r","k",";"," ">>
    \o <<"I","n","f","o","g","r","a","p","h","i","c",":"," ","3"," ","b","u","l","l","e","t"," ","b","e","n","e","f","i","t","s",";"," ","S","h","o","r","t"," ","v","i","d","e","o"," ","i","d","e","a",":"," ","1","5","s"," ","t","a","l","k","i","n","g"," ","h","e","a","d"," ","w","i","t","h"," ","c","a","p","t","i","o","n","s",".">>

\* no outcome recorded
None == [kind |-> "none", text |-> <<>>]

----------------------------------------------------------------------------
(* The generate handler *)

\* raw after .strip() and after a first line that starts with a label is dropped
Normalise(content) ==
    LET raw == Strip(content)
        lines == SplitLines(raw)
    IN  IF lines # <<>> /\ \E p \in LabelPrefixes : LowerStartsWith(lines[1], p)
        THEN Strip(Join(Tail(lines)))
        ELSE raw

Init ==
    /\ API_KEY \in ApiKeys
    /\ topic \in Topics
    /\ num_drafts \in DraftCounts
    /\ pc = "idle"
    /\ idx = -1
    /\ attempt = 0
    /\ generated_raw = <<>>
    /\ drafts = <<>>
    /\ inflight = {}
    /\ ncalls = 0
    /\ first = None
    /\ second = None
    /\ slept = 0
    /\ ui = <<>>
    /\ shown = <<>>
    /\ arg = <<>>
    /\ ret = <<>>

\* `if not API_KEY: st.error(...)`
GenerateMissingKey ==
    /\ pc = "idle"
    /\ API_KEY \in {"None", ""}
    /\ ui' = Append(ui, "error: Missing GROQ API key")
    /\ pc' = "done"
    /\ UNCHANGED <<API_KEY, topic, num_drafts, idx, attempt, generated_raw, drafts,
                   inflight, ncalls, first, second, slept, shown, arg, ret>>

\* `elif not topic or not topic.strip(): st.warning(...)`
GenerateEmptyTopic ==
    /\ pc = "idle"
    /\ API_KEY \notin {"None", ""}
    /\ (topic = <<>> \/ Strip(topic) = <<>>)
    /\ ui' = Append(ui, "warning: Please add Topic / Keywords / Idea before generating.")
    /\ pc' = "done"
    /\ UNCHANGED <<API_KEY, topic, num_drafts, idx, attempt, generated_raw, drafts,
                   inflight, ncalls, first, second, slept, shown, arg, ret>>

\* GenerateStart that tests `not topic` only, without topic.strip()
GenerateStart_NoStrip ==
    /\ pc = "idle"
    /\ API_KEY \notin {"None", ""}
    /\ ~(topic = <<>>)
    /\ drafts' = <<>>
    /\ pc' = "for"
    /\ UNCHANGED <<API_KEY, topic, num_drafts, idx, attempt, generated_raw,
                   inflight, ncalls, first, second, slept, ui, shown, arg, ret>>

\* the else branch up to `drafts = []` (client is set whenever API_KEY is)
GenerateStart ==
    /\ pc = "idle"
    /\ API_KEY \notin {"None", ""}
    /\ ~(topic = <<>> \/ Strip(topic) = <<>>)
    /\ drafts' = <<>>
    /\ pc' = "for"
    /\ UNCHANGED <<API_KEY, topic, num_drafts, idx, attempt, generated_raw,
                   inflight, ncalls, first, second, slept, ui, shown, arg, ret>>

\* `for idx in range(num_drafts):` takes its next index, or ends
ForStep ==
    /\ pc = "for"
    /\ IF idx + 1 < num_drafts
       THEN /\ idx' = idx + 1
            /\ attempt' = 0
            /\ generated_raw' = <<>>
            /\ pc' = "while"
       ELSE /\ pc' = "output"
            /\ UNCHANGED <<idx, attempt, generated_raw>>
    /\ ncalls' = 0
    /\ first' = None
    /\ second' = None
    /\ slept' = 0
    /\ UNCHANGED <<API_KEY, topic, num_drafts, drafts, inflight, ui, shown, arg, ret>>

\* WhileStep without `attempt += 1`
WhileStep_NoIncrement ==
    /\ pc = "while"
    /\ IF attempt < MaxAttempts
       THEN /\ attempt' = attempt
            /\ inflight' = inflight \cup {[draft |-> idx, attempt |-> attempt]}
            /\ ncalls' = ncalls + 1
            /\ pc' = "call"
       ELSE /\ pc' = "append"
            /\ UNCHANGED <<attempt, inflight, ncalls>>
    /\ UNCHANGED <<API_KEY, topic, num_drafts, idx, generated_raw, drafts,
                   first, second, slept, ui, shown, arg, ret>>

\* WhileStep that sends the request and does not wait for the answer
WhileStep_NoWait ==
    /\ pc = "while"
    /\ IF attempt < MaxAttempts
       THEN /\ attempt' = attempt + 1
            /\ inflight' = inflight \cup {[draft |-> idx, attempt |-> attempt + 1]}
            /\ ncalls' = ncalls + 1
            /\ pc' = "append"
       ELSE /\ pc' = "append"
            /\ UNCHANGED <<attempt, inflight, ncalls>>
    /\ UNCHANGED <<API_KEY, topic, num_drafts, idx, generated_raw, drafts,
                   first, second, slept, ui, shown, arg, ret>>

\* `while attempt < 2: attempt += 1`, then the request is sent
WhileStep ==
    /\ pc = "while"
    /\ IF attempt < MaxAttempts
       THEN /\ attempt' = attempt + 1
            /\ inflight' = inflight \cup {[draft |-> idx, attempt |-> attempt + 1]}
            /\ ncalls' = ncalls + 1
            /\ pc' = "call"
       ELSE /\ pc' = "append"
            /\ UNCHANGED <<attempt, inflight, ncalls>>
    /\ UNCHANGED <<API_KEY, topic, num_drafts, idx, generated_raw, drafts,
                   first, second, slept, ui, shown, arg, ret>>

\* CallReturn that judges the text as returned, before the label line is dropped
CallReturn_JudgeReturned(content) ==
    /\ pc = "call"
    /\ inflight' = inflight \ {[draft |-> idx, attempt |-> attempt]}
    /\ LET raw == Normalise(content)
       IN  IF is_incomplete_text(content) /\ attempt < MaxAttempts
           THEN /\ pc' = "sleep"
                /\ UNCHANGED generated_raw
           ELSE /\ generated_raw' = raw
                /\ pc' = "append"
    /\ IF attempt = 1
       THEN first' = [kind |-> "text", text |-> content] /\ UNCHANGED second
       ELSE second' = [kind |-> "text", text |-> content] /\ UNCHANGED first
    /\ UNCHANGED <<API_KEY, topic, num_drafts, idx, attempt, drafts, ncalls,
                   slept, ui, shown, arg, ret>>

\* the completion call returns `content`
CallReturn(content) ==
    /\ pc = "call"
    /\ inflight' = inflight \ {[draft |-> idx, attempt |-> attempt]}
    /\ LET raw == Normalise(content)
       IN  IF is_incomplete_text(raw) /\ attempt < MaxAttempts
           THEN /\ pc' = "sleep"
                /\ UNCHANGED generated_raw
           ELSE /\ generated_raw' = raw
                /\ pc' = "append"
    /\ IF attempt = 1
       THEN first' = [kind |-> "text", text |-> content] /\ UNCHANGED second
       ELSE second' = [kind |-> "text", text |-> content] /\ UNCHANGED first
    /\ UNCHANGED <<API_KEY, topic, num_drafts, idx, attempt, drafts, ncalls,
                   slept, ui, shown, arg, ret>>

\* CallRaise with the try around the whole loop: the exception ends the batch
CallRaise_Abort(exc) ==
    /\ pc = "call"
    /\ inflight' = inflight \ {[draft |-> idx, attempt |-> attempt]}
    /\ generated_raw' = ErrorText(exc)
    /\ pc' = "output"
    /\ IF attempt = 1
       THEN first' = [kind |-> "raise", text |-> exc] /\ UNCHANGED second
       ELSE second' = [kind |-> "raise", text |-> exc] /\ UNCHANGED first
    /\ UNCHANGED <<API_KEY, topic, num_drafts, idx, attempt, drafts, ncalls,
                   slept, ui, shown, arg, ret>>

\* CallRaise that treats a raised call on the first attempt like an incomplete answer
CallRaise_Retry(exc) ==
    /\ pc = "call"
    /\ inflight' = inflight \ {[draft |-> idx, attempt |-> attempt]}
    /\ generated_raw' = ErrorText(exc)
    /\ pc' = IF attempt < MaxAttempts THEN "sleep" ELSE "append"
    /\ IF attempt = 1
       THEN first' = [kind |-> "raise", text |-> exc] /\ UNCHANGED second
       ELSE second' = [kind |-> "raise", text |-> exc] /\ UNCHANGED first
    /\ UNCHANGED <<API_KEY, topic, num_drafts, idx, attempt, drafts, ncalls,
                   slept, ui, shown, arg, ret>>

\* the completion call raises; `except Exception as exc:` ... `break`
CallRaise(exc) ==
    /\ pc = "call"
    /\ inflight' = inflight \ {[draft |-> idx, attempt |-> attempt]}
    /\ generated_raw' = ErrorText(exc)
    /\ pc' = "append"
    /\ IF attempt = 1
       THEN first' = [kind |-> "raise", text |-> exc] /\ UNCHANGED second
       ELSE second' = [kind |-> "raise", text |-> exc] /\ UNCHANGED first
    /\ UNCHANGED <<API_KEY, topic, num_drafts, idx, attempt, drafts, ncalls,
                   slept, ui, shown, arg, ret>>

\* Sleep without the sleep: `continue` alone
Sleep_NoDelay ==
    /\ pc = "sleep"
    /\ pc' = "while"
    /\ UNCHANGED <<API_KEY, topic, num_drafts, idx, attempt, generated_raw, drafts,
                   inflight, ncalls, first, second, slept, ui, shown, arg, ret>>

\* `time.sleep(0.35); continue`
Sleep ==
    /\ pc = "sleep"
    /\ slept' = slept + 1
    /\ pc' = "while"
    /\ UNCHANGED <<API_KEY, topic, num_drafts, idx, attempt, generated_raw, drafts,
                   inflight, ncalls, first, second, ui, shown, arg, ret>>

\* AppendDraft that appends nothing when no text was accepted
AppendDraft_SkipEmpty ==
    /\ pc = "append"
    /\ drafts' = IF generated_raw # <<>> THEN Append(drafts, generated_raw) ELSE drafts
    /\ pc' = "for"
    /\ UNCHANGED <<API_KEY, topic, num_drafts, idx, attempt, generated_raw,
                   inflight, ncalls, first, second, slept, ui, shown, arg, ret>>

\* AppendDraft that appends whatever was accepted
AppendDraft_NoPlaceholder ==
    /\ pc = "append"
    /\ drafts' = Append(drafts, generated_raw)
    /\ pc' = "for"
    /\ UNCHANGED <<API_KEY, topic, num_drafts, idx, attempt, generated_raw,
                   inflight, ncalls, first, second, slept, ui, shown, arg, ret>>

\* `drafts.append(generated_raw if generated_raw else "[No content generated]")`
AppendDraft ==
    /\ pc = "append"
    /\ drafts' = Append(drafts, IF generated_raw # <<>> THEN generated_raw ELSE NoContent)
    /\ pc' = "for"
    /\ UNCHANGED <<API_KEY, topic, num_drafts, idx, attempt, generated_raw,
                   inflight, ncalls, first, second, slept, ui, shown, arg, ret>>

\* what the output loop hands to the UI for one entry of drafts
Render(raw) ==
    LET sp == split_post_and_visuals(raw)
        post_text == remove_visual_lines_from_post(sp[1])
        visuals_text == IF Strip(sp[2]) = <<>> THEN DefaultVisuals ELSE sp[2]
    IN  [post_text |-> post_text, visuals_text |-> visuals_text]

\* `for i, raw in enumerate(drafts, start=1):` renders every draft
Output ==
    /\ pc = "output"
    /\ shown' = [i \in 1..Len(drafts) |-> Render(drafts[i])]
    /\ pc' = "done"
    /\ UNCHANGED <<API_KEY, topic, num_drafts, idx, attempt, generated_raw, drafts,
                   inflight, ncalls, first, second, slept, ui, arg, ret>>

Next ==
    \/ GenerateMissingKey
    \/ GenerateEmptyTopic
    \/ GenerateStart
    \/ ForStep
    \/ WhileStep
    \/ \E content \in Responses : CallReturn(content)
    \/ \E exc \in Excs : CallRaise(exc)
    \/ Sleep
    \/ AppendDraft
    \/ Output

Spec == Init /\ [][Next]_vars

----------------------------------------------------------------------------
(* The helper functions applied to the inputs *)

InitText ==
    /\ API_KEY = "None"
    /\ topic = <<>>
    /\ num_drafts = 1
    /\ pc = "arg"
    /\ idx = -1
    /\ attempt = 0
    /\ generated_raw = <<>>
    /\ drafts = <<>>
    /\ inflight = {}
    /\ ncalls = 0
    /\ first = None
    /\ second = None
    /\ slept = 0
    /\ ui = <<>>
    /\ shown = <<>>
    /\ arg \in TextInputs
    /\ ret = <<>>

ApplyIsIncomplete ==
    /\ pc = "arg"
    /\ ret' = <<is_incomplete_text(arg)>>
    /\ pc' = "is_incomplete_text"
    /\ UNCHANGED <<API_KEY, topic, num_drafts, idx, attempt, generated_raw, drafts,
                   inflight, ncalls, first, second, slept, ui, shown, arg>>

ApplySplit ==
    /\ pc = "arg"
    /\ ret' = split_post_and_visuals(arg)
    /\ pc' = "split_post_and_visuals"
    /\ UNCHANGED <<API_KEY, topic, num_drafts, idx, attempt, generated_raw, drafts,
                   inflight, ncalls, first, second, slept, ui, shown, arg>>

\* split_post_and_visuals applied to the post it has just returned
ApplySplitAgain ==
    /\ pc = "split_post_and_visuals"
    /\ arg' = ret[1]
    /\ ret' = split_post_and_visuals(ret[1])
    /\ pc' = "split_again"
    /\ UNCHANGED <<API_KEY, topic, num_drafts, idx, attempt, generated_raw, drafts,
                   inflight, ncalls, first, second, slept, ui, shown>>

NextText == ApplyIsIncomplete \/ ApplySplit \/ ApplySplitAgain

SpecText == InitText /\ [][NextText]_vars

----------------------------------------------------------------------------
(* Properties of the generation loop *)

\* the run got past the two guards
Started == API_KEY \notin {"None", ""} /\ Strip(topic) # <<>>

\* the draft with index idx has just been appended; first and second are its calls
DraftDone == pc = "for" /\ idx >= 0

\* s has p somewhere in it
Contains(s, p) == \E i \in 1..(Len(s) - Len(p) + 1) : MatchAt(s, i, p)

\* d is the placeholder the except block builds for exc
IsErrorPlaceholder(d, exc) ==
    /\ MatchAt(d, 1, <<"[","E","r","r","o","r"," ","g","e","n","e","r","a","t","i","n","g"," ","d","r","a","f","t",":"," ">>)
    /\ Contains(d, exc)

IsAnyErrorPlaceholder(d) == \E exc \in Excs : IsErrorPlaceholder(d, exc)

\* what a draft entry holds when `content` is the accepted answer
Accepted(content) ==
    IF Normalise(content) = <<>> THEN NoContent ELSE Normalise(content)

AcceptedResponses == { Accepted(r) : r \in Responses }

\* C1: at most two completion calls are issued for any draft, whatever the calls
\* return or raise
C1_AtMostTwoCalls == ncalls <= 2

C1_Witness == DraftDone /\ ncalls = 2 /\ second.kind = "text"

\* C2: a run that passes the guards ends with exactly num_drafts entries, appended
\* in index order, each a generated text or a placeholder
C2_ExactlyNDrafts ==
    /\ DraftDone => Len(drafts) = idx + 1
    /\ (pc \in {"output", "done"} /\ Started) =>
          /\ Len(drafts) = num_drafts
          /\ \A i \in 1..Len(drafts) :
                \/ drafts[i] \in AcceptedResponses
                \/ IsAnyErrorPlaceholder(drafts[i])

C2_Witness ==
    /\ pc = "done"
    /\ num_drafts = 5
    /\ Len(drafts) = 5
    /\ IsAnyErrorPlaceholder(drafts[2])
    /\ drafts[3] = R_Full

\* C3: a call that raises leaves a placeholder with the error detail as that
\* draft's entry, and the drafts after it are still generated
C3_RaiseIsLocal ==
    /\ \A h \in {first, second} :
          h.kind = "raise" =>
             /\ pc \in {"append", "for"}
             /\ pc = "append" => IsErrorPlaceholder(generated_raw, h.text)
             /\ pc = "for" => /\ Len(drafts) = idx + 1
                              /\ IsErrorPlaceholder(drafts[idx + 1], h.text)
    /\ (pc \in {"output", "done"} /\ \E i \in 1..Len(drafts) : IsAnyErrorPlaceholder(drafts[i]))
          => Len(drafts) = num_drafts

C3_Witness ==
    /\ pc = "done"
    /\ num_drafts = 3
    /\ Len(drafts) = 3
    /\ IsAnyErrorPlaceholder(drafts[1])
    /\ drafts[2] = R_Full

\* C4 as stated: a second call is made exactly when the first call returned a text
\* that is_incomplete_text judges incomplete, and the second call's text is the entry
C4_Original ==
    DraftDone =>
       /\ ncalls = 2 <=> (first.kind = "text" /\ is_incomplete_text(first.text))
       /\ second.kind = "text" => drafts[idx + 1] = second.text

\* C4 amended: a second call is made exactly when the first call returned a text
\* that, trimmed and without a leading label line, is judged incomplete; the second
\* call's text, trimmed and stripped the same way, becomes the entry even when it is
\* still incomplete, "[No content generated]" standing in for an empty one
C4_RetryIff ==
    DraftDone =>
       /\ ncalls \in {1, 2}
       /\ ncalls = 2 <=> (first.kind = "text" /\ is_incomplete_text(Normalise(first.text)))
       /\ second.kind = "text" => drafts[idx + 1] = Accepted(second.text)
       /\ ncalls = 1 <=> second.kind = "none"

C4_Witness ==
    /\ DraftDone
    /\ ncalls = 2
    /\ second.kind = "text"
    /\ is_incomplete_text(Normalise(second.text))
    /\ drafts[idx + 1] = R_Short

\* C5: every post text handed to the UI is non-empty
C5_PostNonEmpty ==
    pc = "done" => \A i \in 1..Len(shown) : shown[i].post_text # <<>>

\* C6: without an API key, or with a blank topic, the run surfaces one message and
\* issues no completion request and produces no draft
C6_GuardsBlock ==
    (API_KEY \in {"None", ""} \/ Strip(topic) = <<>>) =>
       /\ ncalls = 0
       /\ inflight = {}
       /\ drafts = <<>>
       /\ shown = <<>>
       /\ pc \in {"idle", "done"}
       /\ pc = "done" => Len(ui) = 1

C6_Witness ==
    /\ pc = "done"
    /\ API_KEY = "gsk_key"
    /\ topic = <<"\n", " ">>
    /\ Len(ui) = 1

\* C7: at most one completion call is in flight, it belongs to the draft that
\* follows the finished ones, and no draft is appended or started while it is
C7_Sequential ==
    /\ Cardinality(inflight) <= 1
    /\ \A c \in inflight : c.draft = Len(drafts) /\ c.draft = idx /\ c.attempt = attempt
    /\ pc # "call" => inflight = {}

C7_Witness ==
    /\ inflight = {[draft |-> 1, attempt |-> 2]}
    /\ Len(drafts) = 1

----------------------------------------------------------------------------
(* Properties of is_incomplete_text and split_post_and_visuals *)

\* the four conditions in which a text counts as incomplete
StatedIncomplete(text) ==
    LET t == Strip(text)
    IN  \/ t = <<>>
        \/ Len(t) < 40
        \/ EndsWith(t, <<".",".",".">>) \/ EndsWith(t, <<"U+2026">>)
        \/ EndsWith(t, <<"-">>)
        \/ \A k \in 1..Len(t) : t[k] \in {"*", "-"} \/ IsSpace(t[k])

\* C8: is_incomplete_text is true exactly for an empty or blank text, a trimmed
\* length under 40, a trimmed text that ends in an ellipsis or a dash, or one made
\* of bullet, dash and space characters only
C8_Original ==
    pc = "is_incomplete_text" => ret[1] = StatedIncomplete(arg)

RECURSIVE NlFrom(_, _)
\* s[i:] cut at every "\n"
NlFrom(s, i) ==
    LET breaks == { k \in i..Len(s) : s[k] = "\n" }
    IN  IF breaks = {} THEN << From(s, i) >>
        ELSE << SubSeq(s, i, Min(breaks) - 1) >> \o NlFrom(s, Min(breaks) + 1)

\* the newline-separated lines of the trimmed text, and the first of them that
\* begins with the visuals header token (0 if none does)
TextLines(raw_text) == NlFrom(Strip(raw_text), 1)

IsHeaderLine(ln) == MatchAtCI(ln, SkipSpace(ln, 1), W_visuals)

FirstHeaderLine(lines) ==
    LET hits == { i \in 1..Len(lines) : IsHeaderLine(lines[i]) }
    IN  IF hits = {} THEN 0 ELSE Min(hits)

LinesBefore(lines, i) == Strip(Join(SubSeq(lines, 1, i - 1)))

LinesFrom(lines, i) == Strip(Join(SubSeq(lines, i, Len(lines))))

\* s without a "post" label at its very start
WithoutLeadingPostLabel(s) ==
    IF LabelAt(s, 1, W_post) THEN From(s, LabelEnd(s, 1, W_post, <<>>)) ELSE s

\* s without the header token at its very start
WithoutLeadingHeader(s) ==
    IF LabelAt(s, 1, W_visuals) THEN From(s, LabelEnd(s, 1, W_visuals, W_image_options)) ELSE s

\* C9 as stated: with a header line, post is the text before it less a leading
\* "post" label and visuals is the text from it on less the header token
C9_Original ==
    pc = "split_post_and_visuals" =>
       LET lines == TextLines(arg)
           h == FirstHeaderLine(lines)
       IN  h # 0 =>
              ret = << Strip(WithoutLeadingPostLabel(LinesBefore(lines, h))),
                       Strip(WithoutLeadingHeader(LinesFrom(lines, h))) >>

\* C9 amended: with a header line the text is divided at the first such line,
\* whatever the trailing heuristic would find; post is the text before it with the
\* "post" label removed wherever it starts a line and every line that mentions a
\* visual keyword dropped, visuals is the text from it on with the header token
\* removed wherever it starts a line
C9_HeaderSplit ==
    pc = "split_post_and_visuals" =>
       LET lines == TextLines(arg)
           h == FirstHeaderLine(lines)
       IN  h # 0 =>
              ret = << remove_visual_lines_from_post(Strip(SubPostLabel(LinesBefore(lines, h)))),
                       Strip(SubVisualsHeader(LinesFrom(lines, h))) >>

\* a header on the third line, a keyword line before it that is dropped from the
\* post, and a last line the trailing heuristic would have cut at
C9_Witness ==
    /\ pc = "split_post_and_visuals"
    /\ arg = Join(<<L_Guide, L_Hello, L_Header, L_Slide>>)
    /\ ret = << L_Hello, L_Slide >>

\* the line starts with a bullet or dash, or with one of the five words
StartsBulletOrWord(ln) ==
    LET s == Strip(ln)
    IN  \/ s # <<>> /\ s[1] \in {"-", "U+2022"}
        \/ \E w \in TrailingKeywords : MatchAtCI(s, 1, w)

\* the last seven lines
LastSeven(lines) == { i \in 1..Len(lines) : i > Len(lines) - 7 }

Max(S) == CHOOSE i \in S : \A j \in S : i >= j

\* C10 as stated: without a header, the text is cut at the last of the final seven
\* lines that starts with a bullet or dash or with one of the five words
C10_Original ==
    pc = "split_post_and_visuals" =>
       LET lines == SplitLines(Strip(arg))
           hits == { i \in LastSeven(lines) : StartsBulletOrWord(lines[i]) }
       IN  (FirstHeaderLine(TextLines(arg)) = 0 /\ hits # {}) =>
              ret = << LinesBefore(lines, Max(hits)), LinesFrom(lines, Max(hits)) >>

\* C10 amended: without a header, the text is cut at the last of the final seven
\* lines that starts, after an optional bullet or dash, with one of the five words
\* as a whole word; visuals is that line and what follows, less any header token
\* at the start of a line, post is what precedes it with every line that mentions
\* a visual keyword dropped; no line further from the end is a cut
C10_TrailingSplit ==
    pc = "split_post_and_visuals" =>
       LET lines == SplitLines(Strip(arg))
           hits == { i \in LastSeven(lines) : StartsLikeVisual(lines[i]) }
       IN  FirstHeaderLine(TextLines(arg)) = 0 =>
              IF hits # {}
              THEN ret = << remove_visual_lines_from_post(LinesBefore(lines, Max(hits))),
                            Strip(SubVisualsHeader(LinesFrom(lines, Max(hits)))) >>
              ELSE ret[2] = <<>>

\* the cut is at the seventh line from the end, with a keyword line before it
C10_Witness ==
    /\ pc = "split_post_and_visuals"
    /\ arg = Join(<<L_Image>> \o [k \in 1..5 |-> L_Tip] \o <<L_Guide>>)
    /\ ret = << <<>>, arg >>


\* the trimmed text with every line break written as "\n"
OneBreak(raw_text) == Strip(Join(SplitLines(Strip(raw_text))))

\* no line begins with the header token and none of the last seven lines starts
\* like a visuals line
NoSplitPoint(raw_text) ==
    LET lines == SplitLines(Strip(raw_text))
    IN  /\ FirstHeaderLine(TextLines(raw_text)) = 0
        /\ \A i \in LastSeven(lines) : ~StartsLikeVisual(lines[i])

StatedKeywords ==
    { <<"v","i","s","u","a","l">>, <<"s","l","i","d","e">>,
      <<"c","a","r","o","u","s","e","l">>, <<"o","v","e","r","l","a","y">> }

\* a word of the line begins, in any letter case, with one of the four words
MentionsStated(ln) ==
    \E i \in 1..Len(ln) :
        WordBoundary(ln, i) /\ \E w \in StatedKeywords : MatchAtCI(ln, i, w)

\* C12 as stated: no line of the post mentions visual, slide, carousel or overlay
C12_Original ==
    pc = "split_post_and_visuals" =>
        \A i \in 1..Len(SplitLines(ret[1])) : ~MentionsStated(SplitLines(ret[1])[i])

\* C12 amended: whichever return is taken, no line of the post holds, as whole
\* words and in any letter case, one of visuals, visual, image options, image
\* idea, overlay text, carousel, suggestion, or slide followed by a digit
C12_NoKeywordLine ==
    pc = "split_post_and_visuals" =>
        \A i \in 1..Len(SplitLines(ret[1])) : ~MentionsVisual(SplitLines(ret[1])[i])

\* the cut is at the last line, and the keyword line above it is dropped from the post
C12_Witness ==
    /\ pc = "split_post_and_visuals"
    /\ arg = Join(<<L_Guide, L_Hello, L_Image>>)
    /\ SplitPath(arg) = "trailing"
    /\ ret = << L_Hello, L_Image >>


RECURSIVE ContentOfLine(_)
\* what a line holds besides labels: the line trimmed, with every "post" label,
\* header token and colon or dash at its start taken away
ContentOfLine(ln) ==
    LET s == Strip(ln)
    IN  IF s = <<>> THEN <<>>
        ELSE IF MatchAtCI(s, 1, W_post)
             THEN ContentOfLine(From(s, LabelEnd(s, 1, W_post, <<>>)))
        ELSE IF MatchAtCI(s, 1, W_visuals)
             THEN ContentOfLine(From(s, LabelEnd(s, 1, W_visuals, W_image_options)))
        ELSE IF s[1] \in {":", "-"} THEN ContentOfLine(Tail(s))
        ELSE s

\* the line mentions a visual keyword, with or without a "post" label before it
MayBeDropped(ln) ==
    \/ MentionsVisual(ln)
    \/ MentionsVisual(WithoutLeadingPostLabel(Strip(ln)))

\* the lines of the text that hold content, each with its content and whether it
\* mentions a visual keyword
ContentLines(text) ==
    LET lines == SplitLines(text)
        all == [ i \in 1..Len(lines) |->
                   [ c |-> ContentOfLine(lines[i]), drop |-> MayBeDropped(lines[i]) ] ]
    IN  SelectSeq(all, LAMBDA r : r.c # <<>>)

\* the content of the lines of the post followed by that of the lines of the visuals
OutputLines(result) ==
    LET c(t) == [ i \in 1..Len(SplitLines(t)) |-> ContentOfLine(SplitLines(t)[i]) ]
    IN  SelectSeq(c(result[1]) \o c(result[2]), LAMBDA x : x # <<>>)

RECURSIVE Accounts(_, _, _)
\* out holds the lines of content in order, each once, but for lines that may be
\* left out when they mention a visual keyword and dropping is allowed
Accounts(content, out, dropping) ==
    IF content = <<>> THEN out = <<>>
    ELSE \/ /\ out # <<>>
            /\ content[1].c = out[1]
            /\ Accounts(Tail(content), Tail(out), dropping)
         \/ /\ dropping
            /\ content[1].drop
            /\ Accounts(Tail(content), out, dropping)

C14_Original ==
    (pc = "split_again" /\ FirstHeaderLine(TextLines(arg)) = 0) =>
        ret = << arg, <<>> >>

\* C14 amended: a post with no header line and no visuals-like line among its
\* last seven, split again, comes back unchanged with empty visuals
C14_Idempotent ==
    (pc = "split_again" /\ NoSplitPoint(arg)) =>
        ret = << arg, <<>> >>

\* a non-empty post of two lines that the second split returns as it is
C14_Witness ==
    /\ pc = "split_again"
    /\ arg = Join(<<L_Hello, L_Bullet>>)
    /\ NoSplitPoint(arg)
    /\ ret = << arg, <<>> >>


\* C15: within a draft the delays taken number one exactly when the second call
\* has been issued or is the next step, and none otherwise; the delay is entered
\* only from a first call that returned, and after it a retry is still allowed
C15_DelayOnlyBeforeRetry ==
    /\ slept = IF ncalls = 2 \/ (pc = "while" /\ ncalls = 1) THEN 1 ELSE 0
    /\ pc = "sleep" => (attempt = 1 /\ ncalls = 1 /\ first.kind = "text" /\ second = None)
    /\ (pc = "while" /\ slept = 1) => attempt < MaxAttempts
    /\ (pc \in {"append", "for"} /\ ncalls = 1) => slept = 0
    /\ (first.kind = "raise" \/ second # None) => pc \notin {"sleep", "while", "call"}

\* the retry call is in flight and one delay came before it
C15_Witness ==
    /\ pc = "call"
    /\ attempt = 2
    /\ ncalls = 2
    /\ first.kind = "text"
    /\ slept = 1

\* C16: a call that raised is the draft's last: a first call that raised leaves
\* the draft with one call, and a second call that raised leaves the draft with
\* the error text built from it, not with what the first call returned
C16_RaiseEndsAttempts ==
    /\ first.kind = "raise" =>
          (ncalls = 1 /\ second = None /\ pc \in {"append", "for"})
    /\ second.kind = "raise" =>
          (ncalls = 2 /\ pc \in {"append", "for"} /\ generated_raw = ErrorText(second.text))
    /\ (DraftDone /\ (first.kind = "raise" \/ second.kind = "raise")) =>
          /\ Len(drafts) = idx + 1
          /\ IsAnyErrorPlaceholder(drafts[idx + 1])
          /\ second.kind = "raise" => drafts[idx + 1] # Accepted(first.text)

\* the first call returned an incomplete text, the second raised, and the entry
\* is the error text
C16_Witness ==
    /\ DraftDone
    /\ first = [kind |-> "text", text |-> R_Short]
    /\ second.kind = "raise"
    /\ ncalls = 2
    /\ drafts[idx + 1] = ErrorText(second.text)

\* C17: no entry of drafts is the empty string, and a draft whose accepted text
\* is empty is entered as the placeholder text
C17_EntriesNonEmpty ==
    /\ \A i \in 1..Len(drafts) : drafts[i] # <<>>
    /\ (DraftDone /\ generated_raw = <<>>) =>
          (Len(drafts) = idx + 1 /\ drafts[idx + 1] = NoContent)

\* the second answer was one line with a stray label, dropped whole, and the
\* entry is the placeholder
C17_Witness ==
    /\ DraftDone
    /\ second = [kind |-> "text", text |-> R_Label]
    /\ Normalise(R_Label) = <<>>
    /\ generated_raw = <<>>
    /\ drafts[idx + 1] = NoContent

============================================================================
